---------------------------- MODULE Spec2Model ----------------------------
(***************************************************************************)
(* A model of useAsyncDataSource, the hook that feeds a paged,             *)
(* asynchronously fetched row source to the data grid.                     *)
(*                                                                         *)
(* The hook runs on one event loop.  Each action below is one macrotask of *)
(* that loop together with the promise continuations it releases: a        *)
(* viewport event with the render and effect it causes, the debounce       *)
(* timer's callback, the settling of one getRowData promise (with the      *)
(* continuation of loadPage and of a getCellsForSelection that awaits it), *)
(* a call of the function getCellsForSelection returns, a cell edit.       *)
(*                                                                         *)
(* CompactSelection is an immutable value: add and remove return a new     *)
(* selection (loadPage stores what add returns), so loadingRef is a set    *)
(* that changes only where the hook assigns loadingRef.current.  One       *)
(* getCellsForSelection call runs at a time.                               *)
(*                                                                         *)
(* debounceTimer is the ref: the range of the timeout it names and whether *)
(* that timeout is still pending.  timeouts holds every pending timeout of *)
(* the event loop; the one the ref names, being the latest set, is its     *)
(* last element while it is pending.                                       *)
(***************************************************************************)
EXTENDS Integers, Sequences, FiniteSets, TLC

\* ------------------------------------------------------------ parameters

\* The hook's arguments.
pageSize == 2
maxConcurrency == 1

\* ---------------------------------------------------------------- bounds

\* The longest list of rows getRowData resolves with (one more than a page).
MaxRows == 3
\* The longest fetchQueue the timer callback is let to build.
MaxQueue == 3

\* The row the user edits: the first of page 1, next to the last of page 0.
EditRows == {2}
\* The columns a cell is asked for.
Cols == {0, 1}

\* Rows are opaque to the hook: it stores them and hands them to toCell and
\* onEdited, and only ever compares them with undefined.  A row is therefore
\* modelled by where it comes from: the i-th row of the reply for a page, or
\* the row onEdited returned for an index.
fetchedRow(page, i) == <<"fetched", page, i>>
editedRow(row) == <<"edited", row, 0>>

Max(a, b) == IF a >= b THEN a ELSE b

\* ----------------------------------------------------------------- state

VARIABLES
    visiblePages,    \* the viewport state (visiblePagesRef.current is the same value)
    loadingRef,      \* CompactSelection of pages loadPage was called for
    dataRef,         \* the sparse row array: a function from the indices written
    pagesLoaded,     \* pages whose fetch resolved with rows
    fetchingPages,   \* pages marked as being fetched
    fetchQueue,      \* pages waiting for processQueue
    debounceTimer,   \* the pending timeout and the page range its closure holds
    inFlight,        \* pages whose getRowData promise has not settled
    calls,           \* how many times getRowData was invoked, per page
    sel,             \* the running getCellsForSelection call
    written,         \* history: the row indices completed fetches have written
    timeouts,        \* the event loop's pending timeouts, oldest first
    updateCells      \* what this step passed to gridRef.current.updateCells

vars == <<visiblePages, loadingRef, dataRef, pagesLoaded, fetchingPages,
          fetchQueue, debounceTimer, inFlight, calls, sel, written, timeouts,
          updateCells>>

\* ------------------------------------------------------------ rectangles

Rect(x, y, w, h) == [x |-> x, y |-> y, width |-> w, height |-> h]

\* The page range of the debounced effect: the viewport with half a page of
\* margin on each side.  (y - pageSize/2)/pageSize is floored, so the margin is
\* kept exact by doubling numerator and denominator.
EffectFirstPage(r) == Max(0, (2 * r.y - pageSize) \div (2 * pageSize))
EffectLastPage(r) == (2 * (r.y + r.height) + pageSize) \div (2 * pageSize)

\* The page range of getCellsForSelection.
SelFirstPage(r) == Max(0, r.y \div pageSize)
SelLastPage(r) == (r.y + r.height) \div pageSize

\* The regions the grid reports: rows 0 .. 0 (page 0), rows 0 .. 2 (pages 0 to
\* 2 with the margin) and the empty region at row 3 (pages 1 and 2).
Regions == {Rect(0, 0, 1, 0), Rect(0, 0, 1, 3), Rect(1, 3, 2, 0)}

\* The rectangles the grid asks the cells of: row 0 (page 0), rows 0 .. 2
\* (pages 0 and 1), row 3 (pages 1 and 2).
SelRects == {Rect(0, 0, 1, 1), Rect(0, 0, 1, 3), Rect(0, 3, 1, 1)}

\* The pages those regions and rectangles reach.
Pages ==
    UNION ({EffectFirstPage(r) .. EffectLastPage(r) : r \in Regions}
            \cup {SelFirstPage(r) .. SelLastPage(r) : r \in SelRects})

\* lodash range(first, last + 1) as a sequence.
range(first, last) == [i \in 1 .. Max(0, last - first + 1) |-> first + i - 1]

\* lodash chunk(s, n): consecutive pieces of n elements, the last one shorter;
\* no piece at all when n < 1.
RECURSIVE chunk(_, _)
chunk(s, n) ==
    IF n < 1 \/ Len(s) = 0 THEN <<>>
    ELSE IF Len(s) <= n THEN <<s>>
    ELSE <<SubSeq(s, 1, n)>> \o chunk(SubSeq(s, n + 1, Len(s)), n)

\* ------------------------------------------------------------------ cells

LoadingCell == [kind |-> "Loading", allowOverlay |-> FALSE]
toCell(rowData, col, row) == [kind |-> "Text", data |-> rowData, col |-> col, row |-> row]

getCellContentOf(data, col, row) ==
    IF row \in DOMAIN data THEN toCell(data[row], col, row) ELSE LoadingCell

getCellContent(col, row) == getCellContentOf(dataRef, col, row)

\* ------------------------------------------------- the tracking state

\* The refs the synchronous part of loadPage and processQueue read and write,
\* gathered in one record so that a handler that calls them several times can
\* thread them through.
Tracking ==
    [loadingRef |-> loadingRef, pagesLoaded |-> pagesLoaded,
     fetchingPages |-> fetchingPages, inFlight |-> inFlight,
     calls |-> calls, fetchQueue |-> fetchQueue]

\* loadPage without the pagesLoaded test of its early return.
loadPageIgnoringLoaded(st, page) ==
    LET marked == [st EXCEPT !.loadingRef = @ \cup {page}]
    IN  IF page \in st.fetchingPages
        THEN marked
        ELSE [marked EXCEPT !.fetchingPages = @ \cup {page},
                            !.inFlight = @ \cup {page},
                            !.calls[page] = @ + 1]

\* loadPage(page) up to its await: the page is marked in loadingRef first, then
\* a page already loaded or being fetched returns; otherwise it is marked as
\* being fetched and getRowData is invoked.
loadPage(st, page) ==
    LET marked == [st EXCEPT !.loadingRef = @ \cup {page}]
    IN  IF page \in st.pagesLoaded \/ page \in st.fetchingPages
        THEN marked
        ELSE [marked EXCEPT !.fetchingPages = @ \cup {page},
                            !.inFlight = @ \cup {page},
                            !.calls[page] = @ + 1]

\* The loop of processQueue.
RECURSIVE processQueue(_)
processQueue(st) ==
    IF Len(st.fetchQueue) > 0 /\ Cardinality(st.fetchingPages) <= maxConcurrency
    THEN processQueue(loadPage([st EXCEPT !.fetchQueue = Tail(@)], Head(st.fetchQueue)))
    ELSE st

\* pageChunk.map(loadPage): loadPage on each page of the chunk, in order.
RECURSIVE loadPages(_, _)
loadPages(st, pages) ==
    IF Len(pages) = 0 THEN st
    ELSE loadPages(loadPage(st, Head(pages)), Tail(pages))

\* The promises of pageChunk.map(loadPage) that are not resolved at once:
\* those of the pages whose loadPage got as far as getRowData.
Started(st, pages) ==
    {pages[i] : i \in 1 .. Len(pages)} \ (st.pagesLoaded \cup st.fetchingPages)

\* The for loop of getCellsForSelection from the chunk it is about to take: it
\* runs until a chunk leaves a promise to await, or until no chunk is left.
RECURSIVE runChunks(_, _)
runChunks(st, chunks) ==
    IF Len(chunks) = 0
    THEN [st |-> st, awaiting |-> {}, chunks |-> <<>>, done |-> TRUE]
    ELSE LET started == Started(st, Head(chunks))
             after == loadPages(st, Head(chunks))
         IN  IF started = {}
             THEN runChunks(after, Tail(chunks))
             ELSE [st |-> after, awaiting |-> started, chunks |-> Tail(chunks),
                   done |-> FALSE]

\* The matrix getCellsForSelection reads once its loop is over.
readCells(data, r) ==
    [y \in r.y .. (r.y + r.height - 1) |->
        [x \in r.x .. (r.x + r.width - 1) |-> getCellContentOf(data, x, y)]]

IdleSel == [pc |-> "idle"]

\* What a getCellsForSelection call becomes after its loop ran as far as it can.
selAfter(run, r) ==
    IF run.done THEN IdleSel
    ELSE [pc |-> "await", r |-> r, awaiting |-> run.awaiting, chunks |-> run.chunks]

\* ------------------------------------------------------------------ Init

\* The state after the first render: the effect has run once on the initial
\* viewport and its timer is pending.
InitialRegion == Rect(0, 0, 0, 0)

effectTimer(r) ==
    [pending |-> TRUE, firstPage |-> EffectFirstPage(r), lastPage |-> EffectLastPage(r)]

NoTimer == [pending |-> FALSE]
NoUpdate == [called |-> FALSE]

timeoutOf(timer) == [firstPage |-> timer.firstPage, lastPage |-> timer.lastPage]

\* The effect without its clearTimeout.
restartTimerKeepingOld(pending, timer, region) ==
    Append(pending, timeoutOf(effectTimer(region)))

\* The effect's clearTimeout(debounceTimer.current) and setTimeout: the
\* timeout the ref names is dropped if it is still pending, the new one added.
restartTimer(pending, timer, region) ==
    Append(IF timer.pending THEN SubSeq(pending, 1, Len(pending) - 1) ELSE pending,
           timeoutOf(effectTimer(region)))

Init ==
    /\ visiblePages = InitialRegion
    /\ loadingRef = {}
    /\ dataRef = <<>>
    /\ pagesLoaded = {}
    /\ fetchingPages = {}
    /\ fetchQueue = <<>>
    /\ debounceTimer = effectTimer(InitialRegion)
    /\ inFlight = {}
    /\ calls = [p \in Pages |-> 0]
    /\ sel = IdleSel
    /\ written = {}
    /\ timeouts = <<timeoutOf(effectTimer(InitialRegion))>>
    /\ updateCells = NoUpdate

SetTracking(st) ==
    /\ loadingRef' = st.loadingRef
    /\ pagesLoaded' = st.pagesLoaded
    /\ fetchingPages' = st.fetchingPages
    /\ inFlight' = st.inFlight
    /\ calls' = st.calls
    /\ fetchQueue' = st.fetchQueue

\* --------------------------------------------------------------- actions

\* onVisibleRegionChanged with an updater that always returns the new region:
\* every call renders and runs the effect.
onVisibleRegionChangedAlways(region) ==
    /\ visiblePages' = region
    /\ debounceTimer' = effectTimer(region)
    /\ timeouts' = restartTimer(timeouts, debounceTimer, region)
    /\ updateCells' = NoUpdate
    /\ UNCHANGED <<loadingRef, dataRef, pagesLoaded, fetchingPages, fetchQueue,
                   inFlight, calls, sel, written>>

\* onVisibleRegionChanged(region), with the render and the effect that follow
\* when the state changes: the updater keeps the old state for an equal
\* region, and then nothing renders and the effect does not run; otherwise the
\* effect clears the pending timer and starts one for the new page range.
onVisibleRegionChanged(region) ==
    /\ IF /\ region.x = visiblePages.x /\ region.y = visiblePages.y
          /\ region.width = visiblePages.width /\ region.height = visiblePages.height
       THEN UNCHANGED <<visiblePages, debounceTimer, timeouts>>
       ELSE /\ visiblePages' = region
            /\ debounceTimer' = effectTimer(region)
            /\ timeouts' = restartTimer(timeouts, debounceTimer, region)
    /\ updateCells' = NoUpdate
    /\ UNCHANGED <<loadingRef, dataRef, pagesLoaded, fetchingPages, fetchQueue,
                   inFlight, calls, sel, written>>

\* The pages the timer callback pushes: those of its range that loadingRef
\* does not hold, in ascending order.
toEnqueue(timer, loading) ==
    LET NotLoading(page) == page \notin loading
    IN  SelectSeq(range(timer.firstPage, timer.lastPage), NotLoading)

\* The callback of a pending timeout: push the pages, then processQueue().
\* The ref keeps the handle of a timeout that has fired; it is then no longer
\* pending, and clearing it does nothing.
debounceFire ==
    /\ \E i \in 1 .. Len(timeouts) :
          LET pushed == toEnqueue(timeouts[i], loadingRef)
          IN  /\ Len(fetchQueue) + Len(pushed) <= MaxQueue
              /\ SetTracking(processQueue([Tracking EXCEPT !.fetchQueue = @ \o pushed]))
              /\ timeouts' = SubSeq(timeouts, 1, i - 1) \o SubSeq(timeouts, i + 1, Len(timeouts))
              /\ debounceTimer' = IF debounceTimer.pending /\ i = Len(timeouts)
                                  THEN NoTimer ELSE debounceTimer
    /\ updateCells' = NoUpdate
    /\ UNCHANGED <<visiblePages, dataRef, sel, written>>

\* What getRowData may settle with: null, a list of rows, or an exception.
\* The lengths of the lists getRowData resolves with: none, a page short of one
\* row, a whole page, and the longest.
RowCounts == {0, pageSize - 1, pageSize, MaxRows}
FetchRows(page) == {[i \in 1 .. n |-> fetchedRow(page, i - 1)] : n \in RowCounts}
FetchResults(page) ==
    {[kind |-> "null"], [kind |-> "throw"]}
        \cup {[kind |-> "rows", rows |-> d] : d \in FetchRows(page)}

\* The indices i + startIndex the loop over d visits.
rowSpan(startIndex, d) == {startIndex + i : i \in 0 .. (Len(d) - 1)}

\* mergeRows storing every row one index too far: data[i + startIndex + 1] = d[i].
mergeRowsShifted(data, startIndex, d) ==
    [row \in DOMAIN data \cup rowSpan(startIndex + 1, d) |->
        IF row \in rowSpan(startIndex + 1, d) THEN d[row - startIndex] ELSE data[row]]

\* mergeRows keeping only the rows of d: the cache holds one page at a time.
mergeRowsOnePage(data, startIndex, d) ==
    [row \in rowSpan(startIndex, d) |-> d[row - startIndex + 1]]

\* data[i + startIndex] = d[i] for every row of d.
mergeRows(data, startIndex, d) ==
    [row \in DOMAIN data \cup rowSpan(startIndex, d) |->
        IF row \in rowSpan(startIndex, d) THEN d[row - startIndex + 1] ELSE data[row]]

\* A damage list of column 0 only, whatever the viewport.
damageListFirstColumn(startIndex, d, vr) ==
    [k \in 1 .. Len(d) |-> <<0, (k - 1) + startIndex>>]

\* The damage list: for each row of d, the columns 0 .. vr.x + vr.width.
damageList(startIndex, d, vr) ==
    LET cols == vr.x + vr.width + 1
    IN  [k \in 1 .. (Len(d) * cols) |->
            <<(k - 1) % cols, ((k - 1) \div cols) + startIndex>>]

\* loadPage after its await dropping the reply of a page the viewport has left.
loadPageResumeIfVisible(st, page, res) ==
    LET released == [st EXCEPT !.fetchingPages = @ \ {page}, !.inFlight = @ \ {page}]
    IN  IF res.kind = "null" \/ page \notin EffectFirstPage(visiblePages) .. EffectLastPage(visiblePages)
        THEN released
        ELSE [released EXCEPT !.pagesLoaded = @ \cup {page}]

\* loadPage(page) after its await, for a promise that resolved.
loadPageResume(st, page, res) ==
    LET released == [st EXCEPT !.fetchingPages = @ \ {page}, !.inFlight = @ \ {page}]
    IN  IF res.kind = "null"
        THEN released   \* loadingRef.current.remove(page) drops its result
        ELSE [released EXCEPT !.pagesLoaded = @ \cup {page}]

\* The settling of the getRowData promise of a page in flight, and what the
\* continuations it releases do: loadPage after its await, and the
\* getCellsForSelection call whose Promise.all it settles.
settle(page, res) ==
    /\ page \in inFlight
    /\ LET thrown == res.kind = "throw"
           st == IF thrown THEN [Tracking EXCEPT !.inFlight = @ \ {page}]
                 ELSE loadPageResume(Tracking, page, res)
           data == IF res.kind = "rows" THEN mergeRows(dataRef, page * pageSize, res.rows)
                   ELSE dataRef
           awaited == sel.pc = "await" /\ page \in sel.awaiting
           left == IF awaited THEN sel.awaiting \ {page} ELSE {}
           resumed == awaited /\ ~thrown /\ left = {}
           run == IF resumed THEN runChunks(st, sel.chunks)
                  ELSE [st |-> st, done |-> FALSE]
       IN  /\ dataRef' = data
           /\ written' = IF res.kind = "rows"
                         THEN written \cup rowSpan(page * pageSize, res.rows)
                         ELSE written
           /\ updateCells' = IF res.kind = "rows"
                             THEN [called |-> TRUE,
                                   cells |-> damageList(page * pageSize, res.rows,
                                                        visiblePages)]
                             ELSE NoUpdate
           /\ SetTracking(run.st)
           /\ sel' = IF ~awaited THEN sel
                     ELSE IF thrown THEN IdleSel
                     ELSE IF resumed THEN selAfter(run, sel.r)
                     ELSE [sel EXCEPT !.awaiting = left]
    /\ UNCHANGED <<visiblePages, debounceTimer, timeouts>>

\* A call of the function getCellsForSelection(r) returns, as far as its first
\* await (or to its end when nothing is left to await).
getCellsForSelection(r) ==
    /\ sel.pc = "idle"
    /\ LET NotLoading(page) == page \notin loadingRef
           pages == SelectSeq(range(SelFirstPage(r), SelLastPage(r)), NotLoading)
           run == runChunks(Tracking, chunk(pages, maxConcurrency))
       IN  /\ SetTracking(run.st)
           /\ sel' = selAfter(run, r)
    /\ updateCells' = NoUpdate
    /\ UNCHANGED <<visiblePages, dataRef, debounceTimer, written, timeouts>>

\* What onEdited may return: undefined, or an updated row.
EditResults(row) == {[defined |-> FALSE], [defined |-> TRUE, row |-> editedRow(row)]}

\* onCellEdited without the return on a row that is not in the cache.
onCellEditedAbsentRow(row, res) ==
    /\ dataRef' = IF res.defined
                  THEN [r \in DOMAIN dataRef \cup {row} |->
                            IF r = row THEN res.row ELSE dataRef[r]]
                  ELSE dataRef
    /\ updateCells' = NoUpdate
    /\ UNCHANGED <<visiblePages, loadingRef, pagesLoaded, fetchingPages, fetchQueue,
                   debounceTimer, inFlight, calls, sel, written, timeouts>>

\* onCellEdited storing whatever onEdited returns: undefined empties the slot.
onCellEditedStoresUndefined(row, res) ==
    /\ dataRef' = IF row \notin DOMAIN dataRef THEN dataRef
                  ELSE IF res.defined THEN [dataRef EXCEPT ![row] = res.row]
                  ELSE [r \in DOMAIN dataRef \ {row} |-> dataRef[r]]
    /\ updateCells' = NoUpdate
    /\ UNCHANGED <<visiblePages, loadingRef, pagesLoaded, fetchingPages, fetchQueue,
                   debounceTimer, inFlight, calls, sel, written, timeouts>>

\* onCellEdited([col, row], newVal), res being what onEdited returns if called.
onCellEdited(row, res) ==
    /\ dataRef' = IF row \in DOMAIN dataRef /\ res.defined
                  THEN [dataRef EXCEPT ![row] = res.row]
                  ELSE dataRef
    /\ updateCells' = NoUpdate
    /\ UNCHANGED <<visiblePages, loadingRef, pagesLoaded, fetchingPages, fetchQueue,
                   debounceTimer, inFlight, calls, sel, written, timeouts>>

Next ==
    \/ \E region \in Regions : onVisibleRegionChanged(region)
    \/ debounceFire
    \/ \E page \in Pages : \E res \in FetchResults(page) : settle(page, res)
    \/ \E r \in SelRects : getCellsForSelection(r)
    \/ \E row \in EditRows : \E res \in EditResults(row) : onCellEdited(row, res)

Spec == Init /\ [][Next]_vars

\* The hook left alone after a viewport was reported: the viewport stays as it
\* is and every fetch resolves with rows.
InitSteady ==
    /\ visiblePages \in Regions
    /\ loadingRef = {}
    /\ dataRef = <<>>
    /\ pagesLoaded = {}
    /\ fetchingPages = {}
    /\ fetchQueue = <<>>
    /\ debounceTimer = effectTimer(visiblePages)
    /\ inFlight = {}
    /\ calls = [p \in Pages |-> 0]
    /\ sel = IdleSel
    /\ written = {}
    /\ timeouts = <<timeoutOf(effectTimer(visiblePages))>>
    /\ updateCells = NoUpdate

NextSteady ==
    \/ debounceFire
    \/ \E r \in SelRects : getCellsForSelection(r)
    \/ \E page \in Pages : \E d \in FetchRows(page) : settle(page, [kind |-> "rows", rows |-> d])
    \/ \E row \in EditRows : \E res \in EditResults(row) : onCellEdited(row, res)

SpecSteady == InitSteady /\ [][NextSteady]_vars

\* The program with a getRowData that keeps to its page: it resolves with
\* pageSize rows at most.
PageResults(page) ==
    {res \in FetchResults(page) : res.kind = "rows" => Len(res.rows) <= pageSize}

NextPageRows ==
    \/ \E region \in Regions : onVisibleRegionChanged(region)
    \/ debounceFire
    \/ \E page \in Pages : \E res \in PageResults(page) : settle(page, res)
    \/ \E r \in SelRects : getCellsForSelection(r)
    \/ \E row \in EditRows : \E res \in EditResults(row) : onCellEdited(row, res)

SpecPageRows == Init /\ [][NextPageRows]_vars

\* ---------------------------------------------------------------- claims

Range(q) == {q[i] : i \in 1 .. Len(q)}
EffectPages(r) == EffectFirstPage(r) .. EffectLastPage(r)
\* The pages that hold a row of rectangle r.
OverlapPages(r) == {row \div pageSize : row \in r.y .. (r.y + r.height - 1)}
\* One index past every row a fetch may write.
RowIndices == 0 .. ((CHOOSE p \in Pages : \A q \in Pages : q <= p) * pageSize + MaxRows)
NullResult == [kind |-> "null"]
RowsResults(page) == {[kind |-> "rows", rows |-> d] : d \in FetchRows(page)}

\* C1: in every reachable state at most maxConcurrency getRowData promises are
\* unsettled.
InFlightWithinCap == Cardinality(inFlight) <= maxConcurrency

\* A page whose last fetch resolved to null and that was not fetched since is
\* one loadPage was called for (loadingRef) that is neither loaded nor marked
\* as being fetched.
NullReleased(p) == p \in loadingRef /\ p \notin pagesLoaded /\ p \notin fetchingPages

\* This step is a trigger covering page p: the debounce timer fires for a range
\* that holds p, or getCellsForSelection is called over rows of p.
TriggerCovers(p) ==
    \/ debounceTimer.pending /\ p \in debounceTimer.firstPage .. debounceTimer.lastPage
                             /\ debounceFire
    \/ \E r \in SelRects : p \in OverlapPages(r) /\ getCellsForSelection(r)

\* After this step getRowData has been invoked for p once more, or p waits
\* for it in fetchQueue or in a chunk of the running getCellsForSelection.
RequestedAgain(p) ==
    \/ calls'[p] = calls[p] + 1
    \/ p \in Range(fetchQueue')
    \/ sel'.pc = "await" /\ \E i \in 1 .. Len(sel'.chunks) : p \in Range(sel'.chunks[i])

\* C2: after getRowData resolved to null for p, a trigger covering p has the
\* fetch of p invoked again (at once, or queued for it).
RetryAfterNull ==
    [][\A p \in Pages : NullReleased(p) /\ TriggerCovers(p) => RequestedAgain(p)]_vars

\* Nothing is left to run without a new event: no timer, no promise pending.
Quiescent == ~debounceTimer.pending /\ inFlight = {} /\ sel.pc = "idle"

\* C3: with the viewport unchanged and every fetch resolving with rows, once
\* the timer and the fetches it started have run, getRowData has been invoked
\* exactly once for every page of the viewport's range.
SteadyFetchesRangeOnce ==
    Quiescent => \A p \in EffectPages(visiblePages) : calls[p] = 1

\* C4: no step invokes getRowData for a page that is in pagesLoaded.
LoadedNeverRefetched ==
    [][\A p \in Pages : p \in pagesLoaded => calls'[p] = calls[p]]_vars

\* C4's case: a loaded page waits in fetchQueue while the timer is about to
\* run processQueue.
LoadedPageQueued ==
    /\ debounceTimer.pending
    /\ Len(fetchQueue) > 0
    /\ Head(fetchQueue) \in pagesLoaded
    /\ Cardinality(fetchingPages) <= maxConcurrency

\* C5: no page is in fetchQueue and in fetchingPages at once.
QueuedOrInFlightNotBoth ==
    \A p \in Pages : ~(p \in Range(fetchQueue) /\ p \in fetchingPages)

\* This step is the one in which a getCellsForSelection(r) call reads its
\* matrix: the call itself when it has nothing to await, or the settling of
\* the last promise it awaits.
SelReads(r) ==
    \/ getCellsForSelection(r) /\ sel'.pc = "idle"
    \/ /\ sel.pc = "await"
       /\ sel.r = r
       /\ sel'.pc = "idle"
       /\ \E page \in sel.awaiting : \E res \in {NullResult} \cup RowsResults(page) :
             settle(page, res)

\* C6: when getCellsForSelection(r) reads the matrix, every page that holds a
\* row of r has been fetched and none is still in flight.
SelectionReadsAfterFetches ==
    [][\A r \in SelRects : SelReads(r) =>
          \A p \in OverlapPages(r) : p \notin inFlight' /\ calls'[p] > 0]_vars

\* C7: the step in which the fetch of p resolves to null leaves p in none of
\* fetchingPages, loadingRef and pagesLoaded.
NullReleasesPage ==
    [][\A p \in inFlight \ inFlight' : settle(p, NullResult) =>
          p \notin fetchingPages' /\ p \notin loadingRef' /\ p \notin pagesLoaded']_vars

\* C8: the step in which the fetch of p resolves with rows d leaves, for every
\* column and every i < Len(d), getCellContent([col, p * pageSize + i]) equal
\* to the cell toCell renders from d[i].
FetchedRowsAreRendered ==
    [][\A p \in inFlight \ inFlight' : \A res \in RowsResults(p) : settle(p, res) =>
          \A i \in 0 .. (Len(res.rows) - 1) : \A col \in Cols :
              getCellContentOf(dataRef', col, p * pageSize + i)
                  = toCell(res.rows[i + 1], col, p * pageSize + i)]_vars

\* C8's case: a page other than the first was fetched with two rows, and the
\* cache holds them at its two indices.
PageRowsInCache ==
    \E p \in pagesLoaded :
        /\ p > 0
        /\ {p * pageSize, p * pageSize + 1} \subseteq DOMAIN dataRef
        /\ dataRef[p * pageSize] = fetchedRow(p, 0)
        /\ dataRef[p * pageSize + 1] = fetchedRow(p, 1)

\* C9: getCellContent returns the loading placeholder for every row no
\* completed fetch has written, and returns it only for rows the cache lacks.
PlaceholderIffNotInCache ==
    \A row \in RowIndices : \A col \in Cols :
        /\ row \notin written => getCellContent(col, row) = LoadingCell
        /\ getCellContent(col, row) = LoadingCell => row \notin DOMAIN dataRef

\* C9's case: a fetch has completed, and a row it did not write is asked for
\* next to one it wrote.
SomeRowsLoadedSomeNot ==
    /\ pagesLoaded # {}
    /\ \E row \in RowIndices : row \in written /\ (row + 1) \notin written

\* C10: onCellEdited at a row of the cache for which onEdited returns a row
\* stores that row at the index and changes no other; at a row that is not in
\* the cache, or when onEdited returns undefined, it leaves the cache as it is.
EditChangesOnlyItsRow ==
    [][\A row \in EditRows : \A res \in EditResults(row) : onCellEdited(row, res) =>
          IF row \in DOMAIN dataRef /\ res.defined
          THEN /\ DOMAIN dataRef' = DOMAIN dataRef
               /\ dataRef'[row] = res.row
               /\ \A other \in DOMAIN dataRef \ {row} : dataRef'[other] = dataRef[other]
          ELSE dataRef' = dataRef]_vars

\* C10's case: row 2 holds the row onEdited returned, between rows the
\* fetches of page 0 and of page 1 wrote.
EditedRowInCache ==
    /\ {1, 2, 3} \subseteq DOMAIN dataRef
    /\ dataRef[2] = editedRow(2)
    /\ dataRef[1] = fetchedRow(0, 1)
    /\ dataRef[3] = fetchedRow(1, 1)


\* The range of pages the effect computes for the recorded viewport.
ViewportTimeout == timeoutOf(effectTimer(visiblePages))

\* C11: at most one debounce timeout is pending at any time, and a pending
\* one carries the range of the viewport recorded last; a change of the
\* viewport leaves exactly one pending, the old one cancelled, and the firing
\* of the timeout leaves none, so a burst of changes ends in one batch.
OneTimerFromLastViewport ==
    [][/\ Len(timeouts) <= 1 /\ Len(timeouts') <= 1
       /\ \A i \in 1 .. Len(timeouts') :
             timeouts'[i] = timeoutOf(effectTimer(visiblePages'))
       /\ visiblePages' # visiblePages => Len(timeouts') = 1
       /\ debounceFire => timeouts' = <<>>]_vars

\* C11's case: the viewport moved to rows 3.. before the timeout set at mount
\* (pages 0 .. 0) fired, and the only timeout pending is the one of the move.
MountTimerReplaced ==
    /\ visiblePages = Rect(1, 3, 2, 0)
    /\ loadingRef = {}
    /\ timeouts = <<ViewportTimeout>>
    /\ ViewportTimeout = [firstPage |-> 1, lastPage |-> 2]


\* C12: a row index of the cache stays in the cache at every step, and the
\* row stored at it changes only in a step of onCellEdited at that row or in
\* the completion of a fetch that resolved with rows.
CacheNeverEvicts ==
    [][\A row \in DOMAIN dataRef :
          /\ row \in DOMAIN dataRef'
          /\ dataRef'[row] # dataRef[row] =>
                \/ /\ row \in EditRows
                   /\ \E res \in EditResults(row) : onCellEdited(row, res)
                \/ \E p \in inFlight \ inFlight' :
                      \E res \in RowsResults(p) : settle(p, res)]_vars

\* C12's case: the fetch of one page has just completed with rows, and the
\* rows the fetch of the other page wrote are in the cache beside them.
CacheHoldsTwoPages ==
    /\ updateCells.called
    /\ {0, 1} \subseteq pagesLoaded
    /\ {0, 1, 2, 3} \subseteq DOMAIN dataRef
    /\ dataRef[0] = fetchedRow(0, 0)
    /\ dataRef[3] = fetchedRow(1, 1)


\* The cache and the loaded set a completion leaves, as settle computes them.
Cache == [dataRef |-> dataRef, pagesLoaded |-> pagesLoaded]
CacheAfter(c, page, res) ==
    [dataRef |-> IF res.kind = "rows"
                 THEN mergeRows(c.dataRef, page * pageSize, res.rows)
                 ELSE c.dataRef,
     pagesLoaded |->
         loadPageResume([Tracking EXCEPT !.pagesLoaded = c.pagesLoaded], page, res).pagesLoaded]
Resolutions(page) == {NullResult} \cup RowsResults(page)

\* C13: for two pages in flight at the same time, and whatever their fetches
\* resolve with, the cache and the loaded set after both completions are the
\* same in either order of completion.
CompletionOrderIrrelevant ==
    \A p \in inFlight : \A q \in inFlight \ {p} :
        \A rp \in Resolutions(p) : \A rq \in Resolutions(q) :
            CacheAfter(CacheAfter(Cache, p, rp), q, rq)
                = CacheAfter(CacheAfter(Cache, q, rq), p, rp)


InFlightFetchNeverCancelled ==
    [][/\ (\E region \in Regions : onVisibleRegionChanged(region)) =>
             inFlight' = inFlight /\ fetchingPages' = fetchingPages
       /\ \A p \in inFlight \ inFlight' : \A res \in RowsResults(p) :
             settle(p, res) =>
                /\ p \in pagesLoaded'
                /\ \A i \in 0 .. (Len(res.rows) - 1) :
                      /\ (p * pageSize + i) \in DOMAIN dataRef'
                      /\ dataRef'[p * pageSize + i] = res.rows[i + 1]]_vars

\* C15's case: the fetch of page 0 has just completed with rows and the page
\* is loaded, under a viewport at rows 3.. whose range of pages (1 .. 2) does
\* not hold it.
LoadedOutsideViewport ==
    /\ updateCells.called
    /\ Len(updateCells.cells) > 0
    /\ updateCells.cells[1][2] = 0
    /\ 0 \in pagesLoaded
    /\ 0 \notin EffectPages(visiblePages)


\* C16: a call of onVisibleRegionChanged with a region equal to the recorded
\* viewport changes none of the viewport, the fetch queue, the debounce timer
\* and the pending timeouts.
SameRegionChangesNothing ==
    [][\A region \in Regions :
          region = visiblePages /\ onVisibleRegionChanged(region) =>
              UNCHANGED <<visiblePages, fetchQueue, debounceTimer, timeouts>>]_vars

\* C16's case: the timeout of the recorded viewport has fired and a fetch has
\* just completed, so a report of the same region would be seen if it set a
\* new timeout.
ViewportSettled ==
    /\ visiblePages \in Regions
    /\ ~debounceTimer.pending
    /\ timeouts = <<>>
    /\ updateCells.called


\* C17: when every fetch resolves with pageSize rows at most, a row that
\* onCellEdited stored is still the row of its index after the completion of
\* any fetch.
EditedRowSurvivesFetches ==
    [][\A p \in inFlight \ inFlight' : \A res \in PageResults(p) :
          settle(p, res) =>
              \A row \in DOMAIN dataRef :
                  dataRef[row] = editedRow(row) => dataRef'[row] = editedRow(row)]_vars

\* C17's case: a fetch has just completed with rows while row 2 holds the
\* row an earlier onCellEdited stored.
FetchCompletedAfterEdit ==
    /\ updateCells.called
    /\ Len(updateCells.cells) > 0
    /\ 2 \in DOMAIN dataRef
    /\ dataRef[2] = editedRow(2)


\* C18: the completion of the fetch of page p, whatever list of rows it
\* resolved with, stores or replaces rows only at indices of
\* p * pageSize .. (p + 1) * pageSize - 1.
FetchWritesOwnPageOnly ==
    [][\A p \in inFlight \ inFlight' : \A res \in RowsResults(p) :
          settle(p, res) =>
              \A row \in DOMAIN dataRef' :
                  (row \notin DOMAIN dataRef \/ dataRef'[row] # dataRef[row]) =>
                      row \in (p * pageSize) .. ((p + 1) * pageSize - 1)]_vars

\* C19: the pages of fetchingPages are exactly the pages whose getRowData
\* promise is not settled yet, a promise that was rejected being settled.
InFlightSetIsUnsettledFetches == fetchingPages = inFlight

===========================================================================
